---- MODULE Spec2Model ----
(***************************************************************************)
(* Model of the audit blockchain of Smart-Health-AI                        *)
(* (backend/blockchain/ledger.py) together with the storage behaviour it   *)
(* relies on (backend/models/database.py, backend/database/connection.py). *)
(*                                                                         *)
(* The ledger collection is a sequence of documents in insertion order.    *)
(* Every coroutine of the ledger is split at its awaits on storage, so     *)
(* that several callers can interleave exactly where the event loop lets   *)
(* them.                                                                   *)
(***************************************************************************)
EXTENDS Integers, Sequences, FiniteSets, TLC

\* ---------------------------------------------------------------- bounds
MaxMs == 1          \* the clock runs over the milliseconds 0..MaxMs
MaxBlocks == 3      \* the API writes at most this many blocks
NumProcs == 2       \* concurrent callers of the ledger
HexBase == 2        \* size of the digit alphabet of a modelled digest
PrefixLen == 3      \* leading digest digits that are modelled as digits

\* ------------------------------------------------------ program constants
difficulty == 2

Procs == 1..NumProcs
Writer == {1}

VARIABLES
    ledger,         \* db.blockchain_ledger: documents in insertion order
    txHashUnique,   \* TRUE when init_db's unique index is in force
    now,            \* the last reading of datetime.utcnow(), in microseconds
    loc,            \* per caller: position in its coroutine and its locals
    tamper,         \* the out-of-band write made to the store, if any
    app             \* the API layer: the patients collection and the
                    \* requests in flight

vars == <<ledger, txHashUnique, now, loc, tamper, app>>

\* ------------------------------------------------------------- the clock
\* instants on a millisecond boundary and instants past one
SubMilli == {0, 1}

ClockValues == {ms * 1000 + us : ms \in 0..MaxMs, us \in SubMilli}

\* datetime.isoformat() of a naive datetime: the microsecond part is
\* printed only when it is not zero.
IsoFormat(t) ==
    IF t % 1000000 = 0 THEN <<t \div 1000000>>
    ELSE <<t \div 1000000, t % 1000000>>

\* A datetime written to MongoDB is a BSON UTC datetime: 64-bit count of
\* milliseconds; the driver drops the microseconds below one millisecond.
BsonDatetime(t) == t - (t % 1000)

\* ------------------------------------------------------------- payloads
GenesisData ==
    [type |-> "genesis",
     message |-> "Smart Health Consulting Services - Genesis Block",
     created_by |-> "system"]

PatientIds == {"P1", "P2"}

Payloads ==
    {[action_type |-> "data_access", patient_id |-> "P1", accessed_by |-> "D1"],
     [action_type |-> "data_modification", patient_id |-> "P2", modified_by |-> "D1"]}

IdCode(s) == CASE s = "P1" -> 1 [] s = "P2" -> 2 [] OTHER -> 0

DataCode(d) == IF "patient_id" \in DOMAIN d THEN IdCode(d.patient_id) ELSE 0

\* --------------------------------------------------------------- digests
\* A digest is a string of digits.  SHA-256 is modelled as collision free:
\* the first PrefixLen digits are a pseudo-random function of the hashed
\* text, the rest of the digest determines the text.  The string "0" is
\* the one-digit string <<0>>.
ZeroString == <<0>>

RECURSIVE Pow(_, _)
Pow(b, e) == IF e = 0 THEN 1 ELSE b * Pow(b, e - 1)

PrevCode(h) == IF Len(h) = 1 THEN 0 ELSE h[1] + 2 * h[2] + 3 * h[3]

Mix(text) ==
    (3 * text.index + 5 * Len(text.timestamp) + text.timestamp[Len(text.timestamp)]
       + 2 * DataCode(text.data) + PrevCode(text.previous_hash) + text.nonce)
    % Pow(HexBase, PrefixLen)

Sha256(text) ==
    [i \in 1..PrefixLen |-> (Mix(text) \div Pow(HexBase, PrefixLen - i)) % HexBase]
        \o <<text>>

\* ----------------------------------------------------- HealthDataBlock
JsonDumpsNoData(b) ==
    [index |-> b.index,
     timestamp |-> IsoFormat(b.timestamp),
     data |-> GenesisData,
     previous_hash |-> b.previous_hash,
     nonce |-> b.nonce]

JsonDumps(b) ==
    [index |-> b.index,
     timestamp |-> IsoFormat(b.timestamp),
     data |-> b.data,
     previous_hash |-> b.previous_hash,
     nonce |-> b.nonce]

calculate_hash(b) == Sha256(JsonDumps(b))

HealthDataBlock(index, timestamp, data, previous_hash) ==
    LET b == [index |-> index, timestamp |-> timestamp, data |-> data,
              previous_hash |-> previous_hash, nonce |-> 0, hash |-> <<>>]
    IN  [b EXCEPT !.hash = calculate_hash(b)]

RECURSIVE mine_block(_, _)
mine_block(b, d) ==
    IF SubSeq(b.hash, 1, d) = [i \in 1..d |-> 0] THEN b
    ELSE LET n == [b EXCEPT !.nonce = @ + 1]
         IN  mine_block([n EXCEPT !.hash = calculate_hash(n)], d)

\* to_dict as it arrives in the collection
to_dict(b) == [b EXCEPT !.timestamp = BsonDatetime(@)]

create_genesis_block_index1(t) == HealthDataBlock(1, t, GenesisData, ZeroString)

create_genesis_block(t) == HealthDataBlock(0, t, GenesisData, ZeroString)

\* ----------------------------------------------------------- the store
None == [index |-> -1]

\* find_one({}, sort=[("index", -1)]): a document of maximal index; which
\* one among equals is not determined.
LatestDocs(s) ==
    {s[i] : i \in {j \in 1..Len(s) : \A k \in 1..Len(s) : s[k].index <= s[j].index}}

get_latest_block_rehashed(doc) ==
    LET b == HealthDataBlock(doc.index, doc.timestamp, doc.data, doc.previous_hash)
    IN  [b EXCEPT !.nonce = doc.nonce, !.hash = calculate_hash([b EXCEPT !.nonce = doc.nonce])]

get_latest_block(doc) ==
    LET b == HealthDataBlock(doc.index, doc.timestamp, doc.data, doc.previous_hash)
    IN  [b EXCEPT !.nonce = doc.nonce, !.hash = doc.hash]

\* insert_one against the unique index on "transaction_hash": no block
\* document has that field, so every document has the key null and a
\* second document is a duplicate.
InsertRejected(s) == txHashUnique /\ s # <<>>

InsertOneUpsert(s, doc) == IF s = <<>> THEN <<doc>> ELSE [s EXCEPT ![1] = doc]

InsertOneCapped(s, doc) == IF s = <<>> THEN <<doc>> ELSE Append(Tail(s), doc)

\* insert_one(doc) when it is accepted: the collection gains the document
InsertOne(s, doc) == Append(s, doc)

SortedByIndexUnsorted(s) == {s}

\* find({}).sort("index", 1).to_list(): every order of the documents that
\* is ascending in index.
RECURSIVE SortedFrom(_, _)
SortedFrom(s, I) ==
    IF I = {} THEN {<<>>}
    ELSE UNION {{<<s[m]>> \o rest : rest \in SortedFrom(s, I \ {m})} :
                    m \in {i \in I : \A j \in I : s[i].index <= s[j].index}}

SortedByIndex(s) == SortedFrom(s, 1..Len(s))

\* ------------------------------------------- verify_chain_integrity
TempBlock(cur) ==
    LET b == HealthDataBlock(cur.index, cur.timestamp, cur.data, cur.previous_hash)
    IN  [b EXCEPT !.nonce = cur.nonce]

HashOkSkipped(cur) == TRUE

HashOk(cur) == calculate_hash(TempBlock(cur)) = cur.hash

LinkOkSiblings(cur, prev) ==
    cur.index = prev.index \/ cur.previous_hash = prev.hash

LinkOkSkipped(cur, prev) == TRUE

LinkOk(cur, prev) == cur.previous_hash = prev.hash

RECURSIVE VerifyFrom(_, _)
VerifyFrom(blocks, i) ==
    IF i > Len(blocks) THEN TRUE
    ELSE IF ~HashOk(blocks[i]) THEN FALSE
    ELSE IF ~LinkOk(blocks[i], blocks[i - 1]) THEN FALSE
    ELSE VerifyFrom(blocks, i + 1)

\* the results verify_chain_integrity() can return on the store s
verify_chain_integrity(s) == {VerifyFrom(blocks, 2) : blocks \in SortedByIndex(s)}

ValidChain(s) == verify_chain_integrity(s) = {TRUE}

Detected(s) == verify_chain_integrity(s) = {FALSE}

\* ------------------------------------------------------------ callers
Idle == [pc |-> "idle", op |-> "none", payload |-> GenesisData, before |-> 0,
         latest |-> None, block |-> None, status |-> "none", ret |-> <<>>,
         args |-> <<>>]

AllIdle == \A p \in Procs : loc[p].pc = "idle"

\* inserts a caller may still make
Pending(p) ==
    CASE loc[p].pc = "idle" -> 0
      [] loc[p].pc = "add_latest" -> IF ledger = <<>> THEN 2 ELSE 1
      [] loc[p].pc \in {"init_count", "init_insert"} ->
            IF loc[p].op = "add" THEN 2 ELSE 1
      [] OTHER -> 1

RECURSIVE SumPending(_)
SumPending(P) ==
    IF P = {} THEN 0
    ELSE LET p == CHOOSE q \in P : TRUE IN Pending(p) + SumPending(P \ {p})

Room(n) == Len(ledger) + SumPending(Procs) + n <= MaxBlocks

NoTamper == [kind |-> "none", field |-> "none", k |-> 0, n |-> 0, valid |-> FALSE]

\* Python's None
NoneValue == [none |-> TRUE]

\* the websocket handlers of /chat/{user_id}
Sockets == {"ws1", "ws2"}

\* a handler that is not running
NoSocket == [pc |-> "closed", user_id |-> "none", token |-> NoneValue,
             connection_id |-> NoneValue]

\* ConnectionManager.__init__: both dictionaries empty; a dictionary is the
\* set of its <<key, value>> pairs; delivered is the last return value of
\* send_personal_message
NoConnections == [active_connections |-> {}, user_connections |-> {},
                  delivered |-> NoneValue]

\* the one document of the patients collection: the profile of user U1
PatientDoc ==
    [_id |-> "P1", user_id |-> "U1", gender |-> NoneValue,
     blood_type |-> [str |-> "O+"], updated_at |-> 0]

\* no request in flight
NoRequest ==
    [route |-> "none", pc |-> "idle", user |-> "none", update |-> <<>>,
     todo |-> <<>>, current |-> NoneValue, audit_failed |-> FALSE,
     patient_id |-> "none", before |-> 0, response |-> NoneValue]

Init ==
    /\ ledger = <<>>
    /\ txHashUnique \in BOOLEAN
    /\ now = 0
    /\ loc = [p \in Procs |-> Idle]
    /\ tamper = NoTamper
    /\ app = [patients |-> <<PatientDoc>>, req |-> [p \in Procs |-> NoRequest],
              manager |-> NoConnections, ws |-> [w \in Sockets |-> NoSocket]]

\* datetime.utcnow(): the clock never runs backwards
UtcNow == {t \in ClockValues : t >= now}

\* a caller enters initialize_blockchain()
CallInitialize(p) ==
    /\ loc[p].pc = "idle"
    /\ Room(1)
    /\ loc' = [loc EXCEPT ![p] = [Idle EXCEPT !.pc = "init_count",
                                   !.op = "initialize", !.before = Len(ledger)]]
    /\ UNCHANGED <<ledger, txHashUnique, now, tamper, app>>

\* a caller enters add_transaction(payload)
CallAdd(p, payload) ==
    /\ loc[p].pc = "idle"
    /\ Room(IF ledger = <<>> THEN 2 ELSE 1)
    /\ loc' = [loc EXCEPT ![p] = [Idle EXCEPT !.pc = "add_latest", !.op = "add",
                                   !.payload = payload, !.before = Len(ledger)]]
    /\ UNCHANGED <<ledger, txHashUnique, now, tamper, app>>

NewBlockSameIndex(latest, payload, t) ==
    mine_block(HealthDataBlock(latest.index, t, payload, latest.hash), difficulty)

NewBlockRecomputed(latest, payload, t) ==
    mine_block(HealthDataBlock(latest.index + 1, t, payload, calculate_hash(latest)),
               difficulty)

\* the block add_transaction builds and mines on the block it read
NewBlock(latest, payload, t) ==
    mine_block(HealthDataBlock(latest.index + 1, t, payload, latest.hash), difficulty)

\* add_transaction: latest_block = await self.get_latest_block()
AddLatest(p) ==
    /\ loc[p].pc = "add_latest"
    /\ IF ledger = <<>>
       THEN /\ loc' = [loc EXCEPT ![p].pc = "init_count"]
            /\ UNCHANGED now
       ELSE \E doc \in LatestDocs(ledger), t \in UtcNow :
              /\ now' = t
              /\ loc' = [loc EXCEPT ![p].pc = "add_insert",
                                    ![p].latest = get_latest_block(doc),
                                    ![p].block = NewBlock(get_latest_block(doc),
                                                          loc[p].payload, t)]
    /\ UNCHANGED <<ledger, txHashUnique, tamper, app>>

\* what a caller does when initialize_blockchain() has returned
AfterInitialize(l) ==
    IF l.op = "add" THEN [l EXCEPT !.pc = "add_refetch"]
    ELSE [l EXCEPT !.pc = "idle", !.status = "ok"]

RaiseSwallowed(l) == [l EXCEPT !.pc = "idle", !.status = "ok"]

\* an exception leaves the coroutine
Raise(l) == [l EXCEPT !.pc = "idle", !.status = "error"]

NeedsGenesisAlways(existing_blocks) == TRUE

\* initialize_blockchain: if existing_blocks == 0
NeedsGenesis(existing_blocks) == existing_blocks = 0

\* initialize_blockchain: existing_blocks = await count_documents({})
InitCount(p) ==
    /\ loc[p].pc = "init_count"
    /\ IF NeedsGenesis(Len(ledger))
       THEN \E t \in UtcNow :
              /\ now' = t
              /\ loc' = [loc EXCEPT ![p].pc = "init_insert",
                                    ![p].block = create_genesis_block(t)]
       ELSE /\ loc' = [loc EXCEPT ![p] = AfterInitialize(loc[p])]
            /\ UNCHANGED now
    /\ UNCHANGED <<ledger, txHashUnique, tamper, app>>

\* initialize_blockchain: await insert_one(genesis_block.to_dict())
InitInsert(p) ==
    /\ loc[p].pc = "init_insert"
    /\ IF InsertRejected(ledger)
       THEN /\ loc' = [loc EXCEPT ![p] = Raise(loc[p])]
            /\ UNCHANGED ledger
       ELSE /\ ledger' = InsertOne(ledger, to_dict(loc[p].block))
            /\ loc' = [loc EXCEPT ![p] = AfterInitialize(loc[p])]
    /\ UNCHANGED <<txHashUnique, now, tamper, app>>

\* add_transaction: latest_block = await self.get_latest_block(), again
AddRefetch(p) ==
    /\ loc[p].pc = "add_refetch"
    /\ \E doc \in LatestDocs(ledger), t \in UtcNow :
          /\ now' = t
          /\ loc' = [loc EXCEPT ![p].pc = "add_insert",
                                ![p].latest = get_latest_block(doc),
                                ![p].block = NewBlock(get_latest_block(doc),
                                                      loc[p].payload, t)]
    /\ UNCHANGED <<ledger, txHashUnique, tamper, app>>

\* add_transaction: await insert_one(new_block.to_dict()); return hash
AddInsert(p) ==
    /\ loc[p].pc = "add_insert"
    /\ IF InsertRejected(ledger)
       THEN /\ loc' = [loc EXCEPT ![p] = Raise(loc[p])]
            /\ UNCHANGED ledger
       ELSE /\ ledger' = InsertOne(ledger, to_dict(loc[p].block))
            /\ loc' = [loc EXCEPT ![p].pc = "idle", ![p].status = "ok",
                                  ![p].ret = loc[p].block.hash]
    /\ UNCHANGED <<txHashUnique, now, tamper, app>>

Step(p) ==
    \/ CallInitialize(p)
    \/ \E payload \in Payloads : CallAdd(p, payload)
    \/ AddLatest(p)
    \/ InitCount(p)
    \/ InitInsert(p)
    \/ AddRefetch(p)
    \/ AddInsert(p)

\* one caller at a time, no out-of-band writes
Next == \E p \in Writer : Step(p)

Spec == Init /\ [][Next]_vars

\* ------------------------------------------------- out-of-band writes
\* Writes made directly to the collection, bypassing the ledger.  The
\* block of index k of an honestly built chain is the document ledger[k+1].
Fields == {"data", "nonce", "previous_hash"}

KnownHashes(s) == {ZeroString} \cup {s[i].hash : i \in 1..Len(s)}

AlteredData(d) ==
    IF "patient_id" \in DOMAIN d
    THEN {[d EXCEPT !.patient_id = q] : q \in PatientIds \ {d.patient_id}}
    ELSE {[d EXCEPT !.created_by = "intruder"]}

\* the documents that differ from doc in exactly the given field
Altered(doc, field, s) ==
    CASE field = "data" -> {[doc EXCEPT !.data = d] : d \in AlteredData(doc.data)}
      [] field = "nonce" -> {[doc EXCEPT !.nonce = @ + 1]}
      [] field = "previous_hash" ->
            {[doc EXCEPT !.previous_hash = h] : h \in KnownHashes(s) \ {doc.previous_hash}}

Untampered == tamper.kind = "none"

CanTamper == AllIdle /\ Untampered /\ ledger # <<>>

\* the record of an out-of-band write to the present store
TamperRecord(kind, field, k) ==
    [kind |-> kind, field |-> field, k |-> k, n |-> Len(ledger),
     valid |-> ValidChain(ledger)]

\* one field of block k is overwritten, its stored hash is left alone
TamperField ==
    /\ CanTamper
    /\ \E k \in 0..(Len(ledger) - 1), field \in Fields :
         \E doc \in Altered(ledger[k + 1], field, ledger) :
            /\ ledger' = [ledger EXCEPT ![k + 1] = doc]
            /\ tamper' = TamperRecord("field", field, k)
    /\ UNCHANGED <<txHashUnique, now, loc, app>>

\* one field of block k is overwritten and its stored hash is replaced by
\* the hash of the document as it now stands
TamperRehash ==
    /\ CanTamper
    /\ \E k \in 0..(Len(ledger) - 1), field \in Fields :
         \E doc \in Altered(ledger[k + 1], field, ledger) :
            /\ ledger' = [ledger EXCEPT ![k + 1] =
                             [doc EXCEPT !.hash = calculate_hash(TempBlock(doc))]]
            /\ tamper' = TamperRecord("rehash", field, k)
    /\ UNCHANGED <<txHashUnique, now, loc, app>>

\* block k is deleted
TamperDelete ==
    /\ CanTamper
    /\ \E k \in 0..(Len(ledger) - 1) :
            /\ ledger' = SubSeq(ledger, 1, k) \o SubSeq(ledger, k + 2, Len(ledger))
            /\ tamper' = TamperRecord("delete", "none", k)
    /\ UNCHANGED <<txHashUnique, now, loc, app>>

\* the blocks an intruder can write: any index, linked to any hash in the
\* store, carrying any hash in the store or the hash of their own content;
\* or a copy of a stored block
Forged(s) ==
    LET bare == {[index |-> i, timestamp |-> BsonDatetime(now),
                  data |-> CHOOSE d \in Payloads : TRUE,
                  previous_hash |-> h, nonce |-> 0, hash |-> <<>>] :
                     i \in (-1)..Len(s), h \in KnownHashes(s)}
    IN  {[b EXCEPT !.hash = g] : b \in bare, g \in KnownHashes(s)}
        \cup {[b EXCEPT !.hash = calculate_hash(TempBlock(b))] : b \in bare}
        \cup {s[i] : i \in 1..Len(s)}

\* an extra block is inserted; its index k decides where the scan meets it
TamperInsert ==
    /\ CanTamper
    /\ \E doc \in Forged(ledger) :
            /\ ledger' = Append(ledger, doc)
            /\ tamper' = TamperRecord("insert", "none", doc.index)
    /\ UNCHANGED <<txHashUnique, now, loc, app>>

\* blocks k and j exchange their index values
TamperSwap ==
    /\ CanTamper
    /\ \E k, j \in 0..(Len(ledger) - 1) :
            /\ k < j
            /\ ledger' = [ledger EXCEPT ![k + 1].index = ledger[j + 1].index,
                                        ![j + 1].index = ledger[k + 1].index]
            /\ tamper' = TamperRecord("swap", "none", k)
    /\ UNCHANGED <<txHashUnique, now, loc, app>>

\* one caller at a time; one out-of-band write, made to the chain as the
\* caller has left it
NextTamper ==
    \/ Untampered /\ \E p \in Writer : Step(p)
    \/ TamperField
    \/ TamperRehash
    \/ TamperDelete
    \/ TamperInsert
    \/ TamperSwap

SpecTamper == Init /\ [][NextTamper]_vars

\* several callers in flight on one event loop, no out-of-band writes
NextConc == \E p \in Procs : Step(p)

SpecConc == Init /\ [][NextConc]_vars

\* ------------------------------------------------------ storage failures
\* The storage operation a call is waiting for fails (the database is not
\* connected, the server does not answer, the write is refused): the driver
\* raises and the collection is as it was.
StorageFails(p) ==
    /\ loc[p].pc \in {"add_latest", "init_count", "init_insert", "add_refetch",
                      "add_insert"}
    /\ loc' = [loc EXCEPT ![p] = Raise(loc[p])]
    /\ UNCHANGED <<ledger, txHashUnique, now, tamper, app>>

NextFail == \E p \in Writer : Step(p) \/ StorageFails(p)

SpecFail == Init /\ [][NextFail]_vars

\* ------------------------------------------------- mining, step by step
\* mine_block as the loop it is: one action per test of the loop condition.
\* A caller mines a block it has just constructed, at any difficulty; and
\* add_transaction mines the block it builds at self.difficulty.
MineDifficulties == {1, 2, 3}

\* the loop condition of mine_block is false
Mined(b, d) == SubSeq(b.hash, 1, d) = [i \in 1..d |-> 0]

MineNextStale(b) == [b EXCEPT !.nonce = @ + 1, !.hash = calculate_hash(b)]

MineNextStuck(b) == [b EXCEPT !.hash = calculate_hash(b)]

\* the body of the loop: self.nonce += 1; self.hash = self.calculate_hash()
MineNext(b) ==
    LET n == [b EXCEPT !.nonce = @ + 1]
    IN  [n EXCEPT !.hash = calculate_hash(n)]

\* the block add_transaction constructs, before it is mined
Unmined(latest, payload, t) ==
    HealthDataBlock(latest.index + 1, t, payload, latest.hash)

\* block = HealthDataBlock(...); block.mine_block(d)
CallMine(p) ==
    /\ loc[p] = Idle
    /\ ledger = <<>>
    /\ \E index \in {0, 1}, t \in UtcNow, data \in Payloads \cup {GenesisData},
          d \in MineDifficulties :
          LET b == HealthDataBlock(index, t, data, ZeroString)
          IN  /\ now' = t
              /\ loc' = [loc EXCEPT ![p] = [Idle EXCEPT !.pc = "mine", !.op = "mine",
                                             !.block = b,
                                             !.args = [difficulty |-> d, start |-> b]]]
    /\ UNCHANGED <<ledger, txHashUnique, tamper, app>>

\* add_transaction: latest_block = await self.get_latest_block()
AddLatestRead(p) ==
    /\ loc[p].pc = "add_latest"
    /\ IF ledger = <<>>
       THEN loc' = [loc EXCEPT ![p].pc = "init_count"]
       ELSE \E doc \in LatestDocs(ledger) :
              loc' = [loc EXCEPT ![p].pc = "add_build",
                                 ![p].latest = get_latest_block(doc)]
    /\ UNCHANGED <<ledger, txHashUnique, now, tamper, app>>

\* add_transaction: latest_block = await self.get_latest_block(), again
AddRefetchRead(p) ==
    /\ loc[p].pc = "add_refetch"
    /\ \E doc \in LatestDocs(ledger) :
          loc' = [loc EXCEPT ![p].pc = "add_build",
                             ![p].latest = get_latest_block(doc)]
    /\ UNCHANGED <<ledger, txHashUnique, now, tamper, app>>

\* add_transaction: new_block = HealthDataBlock(...)
AddBuild(p) ==
    /\ loc[p].pc = "add_build"
    /\ \E t \in UtcNow :
          /\ now' = t
          /\ loc' = [loc EXCEPT ![p].pc = "add_mine",
                                ![p].block = Unmined(loc[p].latest, loc[p].payload, t),
                                ![p].args = [difficulty |-> difficulty,
                                             start |-> Unmined(loc[p].latest,
                                                               loc[p].payload, t)]]
    /\ UNCHANGED <<ledger, txHashUnique, tamper, app>>

\* while self.hash[:difficulty] != target: ...
MineStep(p) ==
    /\ loc[p].pc \in {"mine", "add_mine"}
    /\ IF Mined(loc[p].block, loc[p].args.difficulty)
       THEN loc' = [loc EXCEPT ![p].pc = IF loc[p].pc = "mine" THEN "idle"
                                         ELSE "add_insert",
                               ![p].status = IF loc[p].pc = "mine" THEN "ok"
                                             ELSE loc[p].status]
       ELSE loc' = [loc EXCEPT ![p].block = MineNext(loc[p].block)]
    /\ UNCHANGED <<ledger, txHashUnique, now, tamper, app>>

\* the steps of a call in flight
RunMine(p) ==
    \/ AddLatestRead(p)
    \/ InitCount(p)
    \/ InitInsert(p)
    \/ AddRefetchRead(p)
    \/ AddBuild(p)
    \/ MineStep(p)
    \/ AddInsert(p)

NextMine ==
    \E p \in Writer :
        \/ CallMine(p)
        \/ CallInitialize(p)
        \/ \E payload \in Payloads : CallAdd(p, payload)
        \/ AddLatestRead(p)
        \/ InitCount(p)
        \/ InitInsert(p)
        \/ AddRefetchRead(p)
        \/ AddBuild(p)
        \/ MineStep(p)
        \/ AddInsert(p)

SpecMine == Init /\ [][NextMine]_vars

\* The event loop resumes a coroutine whose storage operation has
\* responded, and the mining loop runs without yielding.
SpecMineFair == SpecMine /\ \A p \in Writer : WF_vars(RunMine(p))

\* ------------------------------------------------- HealthDataAuditor
MaxLogs == 3        \* the auditor is called at most this many times

\* Python values that reach the auditor: None, an int, a str, a member of
\* a str-mixin Enum
Values == {NoneValue, [int |-> 30], [str |-> "555"]}

Digits(n) == CASE n = 30 -> "30" [] n = 31 -> "31" [] OTHER -> "0"

\* str(v)
PyStr(v) ==
    IF "int" \in DOMAIN v THEN [str |-> Digits(v.int)]
    ELSE IF "enum" \in DOMAIN v THEN [str |-> v.enum]
    ELSE v

\* v or {}
OrEmptyDict(v) == IF v = NoneValue THEN <<>> ELSE v

Texts == {"hello", "world"}

\* hashlib.sha256(s.encode()).hexdigest()
Sha256Hex(s) ==
    CASE s = "hello" -> "2cf24dba5fb0a30e26e83b2ac5b9e29e1b161e5c1fa7425e73043362938b9824"
      [] s = "world" -> "486ea46224d1bb4fb680f34f7c9ad96a8f24ec88be73ea8e5a6c65260e9cb8a7"

\* the transaction_data each log_* method builds at the instant t
log_data_access(patient_id, accessed_by, access_type, data_type, additional_info, t) ==
    [action_type |-> "data_access",
     patient_id |-> patient_id,
     accessed_by |-> accessed_by,
     access_type |-> access_type,
     data_type |-> data_type,
     timestamp |-> IsoFormat(t),
     additional_info |-> OrEmptyDict(additional_info)]

log_data_modification(patient_id, modified_by, modification_type, field_changed, old_value, new_value, t) ==
    [action_type |-> "data_modification",
     patient_id |-> patient_id,
     modified_by |-> modified_by,
     modification_type |-> modification_type,
     field_changed |-> field_changed,
     old_value |-> IF old_value # NoneValue THEN PyStr(old_value) ELSE NoneValue,
     new_value |-> IF new_value # NoneValue THEN PyStr(new_value) ELSE NoneValue,
     timestamp |-> IsoFormat(t)]

log_consultation_event(consultation_id, patient_id, doctor_id, event_type, details, t) ==
    [action_type |-> "consultation_event",
     consultation_id |-> consultation_id,
     patient_id |-> patient_id,
     doctor_id |-> doctor_id,
     event_type |-> event_type,
     details |-> OrEmptyDict(details),
     timestamp |-> IsoFormat(t)]

log_ai_interaction_plain(patient_id, interaction_type, ai_model, input_data, output_data, confidence_score, t) ==
    [action_type |-> "ai_interaction",
     patient_id |-> patient_id,
     interaction_type |-> interaction_type,
     ai_model |-> ai_model,
     input_data_hash |-> input_data,
     output_data_hash |-> Sha256Hex(output_data),
     confidence_score |-> confidence_score,
     timestamp |-> IsoFormat(t)]

log_ai_interaction(patient_id, interaction_type, ai_model, input_data, output_data, confidence_score, t) ==
    [action_type |-> "ai_interaction",
     patient_id |-> patient_id,
     interaction_type |-> interaction_type,
     ai_model |-> ai_model,
     input_data_hash |-> Sha256Hex(input_data),
     output_data_hash |-> Sha256Hex(output_data),
     confidence_score |-> confidence_score,
     timestamp |-> IsoFormat(t)]

\* The audit specification reads the clock on millisecond boundaries: what
\* the auditor stores and returns does not depend on the part of an instant
\* below the millisecond.
OnMilli == now % 1000 = 0

UtcNowMilli == {t \in UtcNow : t % 1000 = 0}

\* room for one more call of the auditor
RoomAudit == Len(ledger) + (IF ledger = <<>> THEN 2 ELSE 1) <= MaxLogs + 1

\* return await self.blockchain.add_transaction(transaction_data)
EnterAddTransaction(p, payload, args, t) ==
    /\ now' = t
    /\ loc' = [loc EXCEPT ![p] = [Idle EXCEPT !.pc = "add_latest", !.op = "add",
                                   !.payload = payload, !.before = Len(ledger),
                                   !.args = args]]
    /\ UNCHANGED <<ledger, txHashUnique, tamper>>

\* the auditor called on its own, outside a request
EnterAdd(p, payload, args, t) ==
    EnterAddTransaction(p, payload, args, t) /\ UNCHANGED app

LogDataAccess(p) ==
    /\ loc[p].pc = "idle"
    /\ RoomAudit
    /\ \E patient_id \in PatientIds, t \in UtcNowMilli :
          EnterAdd(p, log_data_access(patient_id, "D1", "read", "patient_profile",
                                      NoneValue, t),
                   [call |-> "log_data_access"], t)

LogDataModification(p) ==
    /\ loc[p].pc = "idle"
    /\ RoomAudit
    /\ \E t \in UtcNowMilli :
          EnterAdd(p, log_data_modification("P1", "P1", "update", "age",
                                            NoneValue, [int |-> 30], t),
                   [call |-> "log_data_modification"], t)

LogConsultationEvent(p) ==
    /\ loc[p].pc = "idle"
    /\ RoomAudit
    /\ \E t \in UtcNowMilli :
          EnterAdd(p, log_consultation_event("K1", "P1", "D1", "created", NoneValue, t),
                   [call |-> "log_consultation_event"], t)

LogAiInteraction(p) ==
    /\ loc[p].pc = "idle"
    /\ RoomAudit
    /\ \E input_data \in Texts, t \in UtcNowMilli :
          \E output_data \in Texts \ {input_data} :
             EnterAdd(p, log_ai_interaction("P1", "health_chat", "gemini-2.5-flash",
                                            input_data, output_data, "0.9", t),
                      [call |-> "log_ai_interaction", input_data |-> input_data,
                       output_data |-> output_data], t)

\* one caller of the auditor at a time
NextAudit ==
    \E p \in Writer :
        \/ LogDataAccess(p)
        \/ LogDataModification(p)
        \/ LogConsultationEvent(p)
        \/ LogAiInteraction(p)
        \/ AddLatest(p) /\ OnMilli'
        \/ InitCount(p) /\ OnMilli'
        \/ InitInsert(p) /\ OnMilli'
        \/ AddRefetch(p) /\ OnMilli'
        \/ AddInsert(p) /\ OnMilli'

SpecAudit == Init /\ [][NextAudit]_vars

\* ------------------------------------------------------------ the routes
\* The handlers of api/routes/patients.py and the chat handler of
\* api/routes/chat_websocket.py that call the auditor.  A handler runs up to
\* its call of the auditor, waits for that call to return or raise, and
\* goes on.
Users == {"U1", "U3", "D1"}

\* current_user.role: U1 and U3 are patients, U3 has no profile yet; D1 is
\* a doctor, A1 an administrator, N1 a user whose role is none of the three
Role(u) ==
    CASE u = "D1" -> "doctor"
      [] u = "A1" -> "admin"
      [] u = "N1" -> "nurse"
      [] OTHER -> "patient"

\* members of Gender(str, Enum) and BloodType(str, Enum)
GenderMale == [enum |-> "Gender.MALE", value |-> "male"]

BloodTypeAPositive == [enum |-> "BloodType.A_POSITIVE", value |-> "A+"]

\* a member of a str-mixin Enum is written to MongoDB as its value
Bson(v) == IF "enum" \in DOMAIN v THEN [str |-> v.value] ELSE v

\* the bodies of PUT /profile: PatientUpdate with every field optional
PatientUpdates ==
    [gender : {NoneValue, GenderMale}, blood_type : {NoneValue, BloodTypeAPositive}]

UpdateFieldsReversed == <<"blood_type", "gender">>

\* the fields of PatientUpdate in the order of patient_update.dict()
UpdateFields == <<"gender", "blood_type">>

\* update_data = {k: v for k, v in patient_update.dict().items() if v is not None}
update_data(patient_update) ==
    SelectSeq(UpdateFields, LAMBDA f : patient_update[f] # NoneValue)

\* find_one({"user_id": ...}) / find_one({"_id": ...}) on the patients
FindByUser(user) ==
    {i \in 1..Len(app.patients) : app.patients[i].user_id = user}

FindById(patient_id) ==
    {i \in 1..Len(app.patients) : app.patients[i]._id = patient_id}

\* update_one({"user_id": ...}, {"$set": update_data})
SetFields(doc, patient_update, t) ==
    [f \in DOMAIN doc |->
        IF f = "updated_at" THEN BsonDatetime(t)
        ELSE IF f \in {"gender", "blood_type"} /\ patient_update[f] # NoneValue
             THEN Bson(patient_update[f])
        ELSE doc[f]]

\* room for a request that may log n blocks
RoomRoute(n) == Len(ledger) + n + (IF ledger = <<>> THEN 1 ELSE 0) <= MaxBlocks

RouteIdle(p) == app.req[p].pc = "idle" /\ loc[p].pc = "idle"

\* the handler returns or raises HTTPException: the response leaves
Respond(p, r, response) ==
    app' = [app EXCEPT !.req[p] = [r EXCEPT !.pc = "idle", !.response = response]]

\* the handler awaits the auditor
AwaitAudit(p, r) == app' = [app EXCEPT !.req[p] = [r EXCEPT !.pc = "audit"]]

CatchAuditMissing(failed, normal) ==
    IF failed THEN [status |-> 500, body |-> NoneValue] ELSE normal

\* try: await health_auditor.log_...(...)  except Exception as e: print(...)
\* what the handler goes on to respond, after the call returned or raised
CatchAudit(failed, normal) == normal

\* GET /patients/profile
GetPatientProfile(p) ==
    /\ RouteIdle(p)
    /\ RoomRoute(1)
    /\ \E user \in Users :
         LET r == [NoRequest EXCEPT !.route = "get_patient_profile", !.user = user]
         IN  IF Role(user) # "patient"
             THEN /\ Respond(p, r, [status |-> 403, body |-> NoneValue])
                  /\ UNCHANGED <<ledger, txHashUnique, now, loc, tamper>>
             ELSE IF FindByUser(user) = {}
             THEN /\ Respond(p, r, [status |-> 404, body |-> NoneValue])
                  /\ UNCHANGED <<ledger, txHashUnique, now, loc, tamper>>
             ELSE \E i \in FindByUser(user), t \in UtcNow :
                    /\ AwaitAudit(p, [r EXCEPT !.current = app.patients[i]])
                    /\ EnterAddTransaction(p,
                          log_data_access(user, user, "read", "patient_profile",
                                          [endpoint |-> "/profile",
                                           self_access |-> TRUE], t),
                          [call |-> "log_data_access"], t)

\* one call of log_data_modification of the loop of PUT /profile
LogField(p, r, t) ==
    LET field == Head(r.todo)
    IN  /\ AwaitAudit(p, [r EXCEPT !.todo = Tail(r.todo)])
        /\ EnterAddTransaction(p,
              log_data_modification(r.user, r.user, "update", field,
                                    IF r.current = NoneValue THEN NoneValue
                                    ELSE r.current[field],
                                    r.update[field], t),
              [call |-> "log_data_modification"], t)

\* PUT /patients/profile
UpdatePatientProfile(p) ==
    /\ RouteIdle(p)
    /\ \E user \in Users, patient_update \in PatientUpdates :
         LET r == [NoRequest EXCEPT !.route = "update_patient_profile",
                                    !.user = user, !.update = patient_update,
                                    !.todo = update_data(patient_update),
                                    !.before = Len(ledger)]
         IN  /\ RoomRoute(Len(r.todo))
             /\ IF Role(user) # "patient"
                THEN /\ Respond(p, r, [status |-> 403, body |-> NoneValue])
                     /\ UNCHANGED <<ledger, txHashUnique, now, loc, tamper>>
                ELSE IF r.todo = <<>>
                THEN /\ IF FindByUser(user) = {}
                        THEN Respond(p, r, [status |-> 500, body |-> NoneValue])
                        ELSE \E i \in FindByUser(user) :
                               Respond(p, r, [status |-> 200, body |-> app.patients[i]])
                     /\ UNCHANGED <<ledger, txHashUnique, now, loc, tamper>>
                ELSE IF FindByUser(user) = {}
                THEN /\ Respond(p, r, [status |-> 404, body |-> NoneValue])
                     /\ UNCHANGED <<ledger, txHashUnique, now, loc, tamper>>
                ELSE \E i \in FindByUser(user), t \in UtcNow :
                       LET field == Head(r.todo)
                           r1 == [r EXCEPT !.current = app.patients[i],
                                           !.todo = Tail(r.todo), !.pc = "audit"]
                       IN  /\ app' = [app EXCEPT
                                        !.patients[i] = SetFields(@, patient_update, t),
                                        !.req[p] = r1]
                           /\ EnterAddTransaction(p,
                                 log_data_modification(user, user, "update", field,
                                                       app.patients[i][field],
                                                       patient_update[field], t),
                                 [call |-> "log_data_modification"], t)

\* GET /patients/{patient_id}, behind require_roles([DOCTOR, ADMIN])
GetPatientById(p) ==
    /\ RouteIdle(p)
    /\ RoomRoute(1)
    /\ \E user \in Users, patient_id \in {"P1", "P9"} :
         LET r == [NoRequest EXCEPT !.route = "get_patient_by_id", !.user = user]
         IN  IF Role(user) \notin {"doctor", "admin"}
             THEN /\ Respond(p, r, [status |-> 403, body |-> NoneValue])
                  /\ UNCHANGED <<ledger, txHashUnique, now, loc, tamper>>
             ELSE IF FindById(patient_id) = {}
             THEN /\ Respond(p, r, [status |-> 404, body |-> NoneValue])
                  /\ UNCHANGED <<ledger, txHashUnique, now, loc, tamper>>
             ELSE \E i \in FindById(patient_id), t \in UtcNow :
                    /\ AwaitAudit(p, [r EXCEPT !.current = app.patients[i]])
                    /\ EnterAddTransaction(p,
                          log_data_access(patient_id, user, "read", "patient_profile",
                                          [endpoint |-> <<"/patients/", patient_id>>,
                                           doctor_access |-> TRUE,
                                           doctor_name |-> [full_name |-> user]], t),
                          [call |-> "log_data_access"], t)

\* handle_chat_message for a message of type "chat" without a consultation:
\* the reply has been streamed to the socket when the auditor is called
HandleChatMessage(p) ==
    /\ RouteIdle(p)
    /\ RoomRoute(1)
    /\ \E user \in {"U1"}, user_message \in Texts, t \in UtcNow :
         \E ai_response_text \in Texts \ {user_message} :
            /\ AwaitAudit(p, [NoRequest EXCEPT !.route = "handle_chat_message",
                                               !.user = user,
                                               !.current = [str |-> ai_response_text]])
            /\ EnterAddTransaction(p,
                  log_ai_interaction(user, "health_chat", "gemini-2.5-flash",
                                     user_message, ai_response_text, "0.9", t),
                  [call |-> "log_ai_interaction", input_data |-> user_message,
                   output_data |-> ai_response_text], t)

\* the call of the auditor has returned or raised; the handler goes on
AuditReturns(p) ==
    /\ app.req[p].pc = "audit"
    /\ loc[p].pc = "idle"
    /\ LET failed == loc[p].status = "error"
           r == [app.req[p] EXCEPT !.audit_failed = @ \/ failed]
       IN  IF r.route = "update_patient_profile" /\ ~failed /\ r.todo # <<>>
           THEN \E t \in UtcNow : LogField(p, r, t)
           ELSE /\ IF r.route = "update_patient_profile"
                   THEN \E i \in FindByUser(r.user) :
                          Respond(p, [r EXCEPT !.current = NoneValue],
                                  CatchAudit(r.audit_failed,
                                      [status |-> 200, body |-> app.patients[i]]))
                   ELSE Respond(p, [r EXCEPT !.current = NoneValue],
                                CatchAudit(r.audit_failed,
                                    [status |-> 200, body |-> r.current]))
                /\ loc' = [loc EXCEPT ![p] = Idle]
                /\ UNCHANGED <<ledger, txHashUnique, now, tamper>>

\* One request at a time; the store may fail under the auditor.  The
\* requests are served within one reading of the clock: no route depends
\* on the time that passes between two of its steps.
NextRoutes ==
    \E p \in Writer :
        \/ GetPatientProfile(p) /\ now' = now
        \/ UpdatePatientProfile(p) /\ now' = now
        \/ GetPatientById(p) /\ now' = now
        \/ HandleChatMessage(p) /\ now' = now
        \/ AuditReturns(p) /\ now' = now
        \/ AddLatest(p) /\ now' = now
        \/ InitCount(p) /\ now' = now
        \/ InitInsert(p) /\ now' = now
        \/ AddRefetch(p) /\ now' = now
        \/ AddInsert(p) /\ now' = now
        \/ StorageFails(p)

SpecRoutes == Init /\ [][NextRoutes]_vars

\* --------------------------------------------------------------- reads
\* find({"data.patient_id": patient_id}): a document without the field
\* does not match
Matching(s, patient_id) ==
    {i \in 1..Len(s) : /\ "patient_id" \in DOMAIN s[i].data
                       /\ s[i].data.patient_id = patient_id}

RECURSIVE SortedAscFrom(_, _)
SortedAscFrom(s, I) ==
    IF I = {} THEN {<<>>}
    ELSE UNION {{<<s[m]>> \o rest : rest \in SortedAscFrom(s, I \ {m})} :
                    m \in {i \in I : \A j \in I : s[i].timestamp <= s[j].timestamp}}

\* .sort("timestamp", -1).to_list(): every order of the documents that is
\* descending in the stored timestamp
RECURSIVE SortedDescFrom(_, _)
SortedDescFrom(s, I) ==
    IF I = {} THEN {<<>>}
    ELSE UNION {{<<s[m]>> \o rest : rest \in SortedDescFrom(s, I \ {m})} :
                    m \in {i \in I : \A j \in I : s[i].timestamp >= s[j].timestamp}}

\* the lists get_patient_audit_trail(patient_id) can return on the store s
get_patient_audit_trail(s, patient_id) == SortedDescFrom(s, Matching(s, patient_id))

ConsentActionsWithAi ==
    {"data_access", "data_modification", "consultation_event", "ai_interaction"}

ConsentActionsAndAi ==
    {"data_access", "data_modification", "consultation_event", "ai_interaction"}

ConsentActions == {"data_access", "data_modification", "consultation_event"}

\* data.get(k) is neither None nor empty
Truthy(d, k) == k \in DOMAIN d /\ d[k] # ""

\* data.get("accessed_by") or data.get("modified_by") or data.get("doctor_id")
PerformedBy(d) ==
    IF Truthy(d, "accessed_by") THEN d.accessed_by
    ELSE IF Truthy(d, "modified_by") THEN d.modified_by
    ELSE IF "doctor_id" \in DOMAIN d THEN d.doctor_id
    ELSE NoneValue

ConsentEvent(block) ==
    [timestamp |-> block.timestamp,
     action |-> block.data.action_type,
     performed_by |-> PerformedBy(block.data),
     details |-> block.data,
     block_hash |-> block.hash]

RECURSIVE ConsentEvents(_)
ConsentEvents(audit_trail) ==
    IF audit_trail = <<>> THEN <<>>
    ELSE LET block == Head(audit_trail)
         IN  (IF /\ "action_type" \in DOMAIN block.data
                 /\ block.data.action_type \in ConsentActions
              THEN <<ConsentEvent(block)>> ELSE <<>>)
             \o ConsentEvents(Tail(audit_trail))

\* the lists get_patient_consent_log(patient_id) can return on the store s
get_patient_consent_log(s, patient_id) ==
    {ConsentEvents(audit_trail) : audit_trail \in get_patient_audit_trail(s, patient_id)}

\* the _id of a group of {"$group": {"_id": "$data.action_type", ...}}
GroupKey(doc) ==
    IF "action_type" \in DOMAIN doc.data THEN doc.data.action_type ELSE "None"

\* {item["_id"]: item["count"] for item in transaction_types}
TransactionTypes(s) ==
    [k \in {GroupKey(s[i]) : i \in 1..Len(s)} |->
        Cardinality({i \in 1..Len(s) : GroupKey(s[i]) = k})]

\* The instant 0 of the model lies MidnightAt microseconds before a
\* midnight (UTC), and the clock of the model spans less than a day.
MidnightAt == 1000

\* timestamp >= datetime.utcnow().replace(hour=0, minute=0, second=0,
\* microsecond=0), for utcnow() = t: at or after the start of the day of t
SinceMidnight(timestamp, t) ==
    IF t >= MidnightAt THEN timestamp >= MidnightAt ELSE TRUE

RecentActivity(s, t) ==
    Cardinality({i \in 1..Len(s) : SinceMidnight(s[i].timestamp, t)})

PatientQueries == PatientIds \cup {"P9"}

\* a read that is one query of the store returns what it found
ReturnRead(p, op, args, ret) ==
    /\ loc[p].pc = "idle"
    /\ loc' = [loc EXCEPT ![p] = [Idle EXCEPT !.op = op, !.status = "ok",
                                   !.before = Len(ledger), !.args = args,
                                   !.ret = ret]]
    /\ UNCHANGED <<ledger, txHashUnique, now, tamper, app>>

VerifyChainIntegrity(p) ==
    \E r \in verify_chain_integrity(ledger) : ReturnRead(p, "verify", <<>>, r)

GetPatientAuditTrail(p) ==
    \E patient_id \in PatientQueries :
        \E r \in get_patient_audit_trail(ledger, patient_id) :
            ReturnRead(p, "audit_trail", [patient_id |-> patient_id], r)

GetPatientConsentLog(p) ==
    \E patient_id \in PatientQueries :
        \E r \in get_patient_consent_log(ledger, patient_id) :
            ReturnRead(p, "consent_log", [patient_id |-> patient_id], r)

\* get_blockchain_stats: total_blocks = await count_documents({})
StatsCount(p) ==
    /\ loc[p].pc = "idle"
    /\ loc' = [loc EXCEPT ![p] = [Idle EXCEPT !.pc = "stats_types", !.op = "stats",
                                   !.before = Len(ledger),
                                   !.ret = [total_blocks |-> Len(ledger)]]]
    /\ UNCHANGED <<ledger, txHashUnique, now, tamper, app>>

\* get_blockchain_stats: transaction_types = await aggregate(...).to_list()
StatsTypes(p) ==
    /\ loc[p].pc = "stats_types"
    /\ loc' = [loc EXCEPT ![p].pc = "stats_recent",
                          ![p].ret = [total_blocks |-> loc[p].ret.total_blocks,
                                      transaction_types |-> TransactionTypes(ledger)]]
    /\ UNCHANGED <<ledger, txHashUnique, now, tamper, app>>

\* get_blockchain_stats: recent_activity = await count_documents(...)
StatsRecent(p) ==
    /\ loc[p].pc = "stats_recent"
    /\ \E t \in UtcNow :
          /\ now' = t
          /\ loc' = [loc EXCEPT ![p].pc = "stats_verify",
                                ![p].ret = [total_blocks |-> loc[p].ret.total_blocks,
                                            transaction_types |->
                                                loc[p].ret.transaction_types,
                                            recent_activity |->
                                                RecentActivity(ledger, t)]]
    /\ UNCHANGED <<ledger, txHashUnique, tamper, app>>

\* get_blockchain_stats: await self.verify_chain_integrity(); return
StatsVerify(p) ==
    /\ loc[p].pc = "stats_verify"
    /\ \E r \in verify_chain_integrity(ledger) :
          loc' = [loc EXCEPT ![p].pc = "idle", ![p].status = "ok",
                             ![p].ret = [total_blocks |-> loc[p].ret.total_blocks,
                                         transaction_types |->
                                             loc[p].ret.transaction_types,
                                         recent_activity |->
                                             loc[p].ret.recent_activity,
                                         blockchain_integrity |-> r]]
    /\ UNCHANGED <<ledger, txHashUnique, now, tamper, app>>

\* timestamp >= t - timedelta(seconds), for an instant t in microseconds
NotBefore(timestamp, t, seconds) ==
    LET a == (timestamp \div 1000000) + seconds
        b == t \div 1000000
    IN  a > b \/ (a = b /\ timestamp % 1000000 >= t % 1000000)

\* the counts get_recent_blockchain_activity makes of the blocks it found
ActivityKey(doc) ==
    IF "action_type" \in DOMAIN doc.data /\ doc.data.action_type \in ConsentActionsWithAi
    THEN doc.data.action_type ELSE "other"

ActivityBreakdown(s, I) ==
    [k \in ConsentActionsWithAi \cup {"other"} |->
        Cardinality({i \in I : ActivityKey(s[i]) = k})]

\* GET /recent-activity: one find() on the collection.  Of the response the
\* counts are kept, not the listing of the blocks.
GetRecentActivity(p) ==
    /\ loc[p].pc = "idle"
    /\ \E hours \in {24}, t \in UtcNow :
        LET I == {i \in 1..Len(ledger) :
                     NotBefore(ledger[i].timestamp, t, hours * 3600)}
        IN  /\ now' = t
            /\ loc' = [loc EXCEPT ![p] =
                         [Idle EXCEPT !.pc = "report_return",
                                      !.op = "recent_activity",
                                      !.before = Len(ledger),
                                      !.args = [hours |-> hours],
                                      !.ret = [total |-> Cardinality(I),
                                               activity_breakdown |->
                                                   ActivityBreakdown(ledger, I)]]]
    /\ UNCHANGED <<ledger, txHashUnique, tamper, app>>

\* GET /data-access-report/{patient_id}: one find() on the collection
GetDataAccessReport(p) ==
    /\ loc[p].pc = "idle"
    /\ \E patient_id \in PatientQueries, days \in {30}, t \in UtcNow :
        LET I == {i \in Matching(ledger, patient_id) :
                     /\ "action_type" \in DOMAIN ledger[i].data
                     /\ ledger[i].data.action_type = "data_access"
                     /\ NotBefore(ledger[i].timestamp, t, days * 86400)}
        IN  /\ now' = t
            /\ loc' = [loc EXCEPT ![p] =
                         [Idle EXCEPT !.pc = "report_return",
                                      !.op = "access_report",
                                      !.before = Len(ledger),
                                      !.args = [patient_id |-> patient_id,
                                                days |-> days],
                                      !.ret = [total |-> Cardinality(I)]]]
    /\ UNCHANGED <<ledger, txHashUnique, tamper, app>>

\* both routes stamp their response: datetime.utcnow().isoformat()
ReportReturn(p) ==
    /\ loc[p].pc = "report_return"
    /\ \E t \in UtcNow :
          /\ now' = t
          /\ loc' = [loc EXCEPT ![p].pc = "idle", ![p].status = "ok",
                                ![p].args = [generated |-> IsoFormat(t)]]
    /\ UNCHANGED <<ledger, txHashUnique, tamper, app>>

ReadOps ==
    {"verify", "audit_trail", "consent_log", "stats", "recent_activity",
     "access_report"}

\* one caller at a time, writing and reading
NextRead ==
    \E p \in Writer :
        \/ Step(p)
        \/ VerifyChainIntegrity(p)
        \/ GetPatientAuditTrail(p)
        \/ GetPatientConsentLog(p)
        \/ StatsCount(p)
        \/ StatsTypes(p)
        \/ StatsRecent(p)
        \/ StatsVerify(p)
        \/ GetRecentActivity(p)
        \/ GetDataAccessReport(p)
        \/ ReportReturn(p)

SpecRead == Init /\ [][NextRead]_vars

\* ------------------------------------------- the per-patient read routes
\* GET /audit-trail/{patient_id}, /consent-log/{patient_id} and
\* /data-access-report/{patient_id} of api/routes/blockchain.py.  Each
\* checks the caller, then makes one query of the ledger.
Callers == {"U1", "D1", "A1", "N1"}

\* the patient_id of the path
RouteQueries == {"U1", "P1"}

MayReadAny(user, patient_id) == TRUE

\* the permission check the three routes share: it raises
\* HTTPException(403) when this is false
MayRead(user, patient_id) ==
    IF Role(user) = "patient" THEN user = patient_id
    ELSE Role(user) \in {"doctor", "admin"}

\* except HTTPException: raise / except Exception: raise HTTPException(500)
Reraise(exc) ==
    IF exc.type = "HTTPException" THEN [status |-> exc.status_code, body |-> NoneValue]
    ELSE [status |-> 500, body |-> NoneValue]

Forbidden == [type |-> "HTTPException", status_code |-> 403]

\* audit_trail[skip:skip + limit]
Slice(list, skip, limit) ==
    SubSeq(list, skip + 1, IF skip + limit < Len(list) THEN skip + limit ELSE Len(list))

\* a read route answers in one step
ReadResponds(p, route, user, patient_id, response) ==
    /\ Respond(p, [NoRequest EXCEPT !.route = route, !.user = user,
                                    !.patient_id = patient_id], response)
    /\ UNCHANGED <<ledger, txHashUnique, now, loc, tamper>>

\* GET /audit-trail/{patient_id}
RouteAuditTrail(p) ==
    /\ RouteIdle(p)
    /\ \E user \in Callers, patient_id \in RouteQueries, skip \in {0}, limit \in {50} :
         IF ~MayRead(user, patient_id)
         THEN ReadResponds(p, "audit_trail", user, patient_id, Reraise(Forbidden))
         ELSE \E audit_trail \in get_patient_audit_trail(ledger, patient_id) :
                LET paginated_trail == Slice(audit_trail, skip, limit)
                IN  ReadResponds(p, "audit_trail", user, patient_id,
                       [status |-> 200,
                        body |-> [patient_id |-> patient_id,
                                  audit_trail |-> paginated_trail,
                                  total_records |-> Len(audit_trail),
                                  returned_records |-> Len(paginated_trail),
                                  skip |-> skip, limit |-> limit]])

\* GET /consent-log/{patient_id}
RouteConsentLog(p) ==
    /\ RouteIdle(p)
    /\ \E user \in Callers, patient_id \in RouteQueries :
         IF ~MayRead(user, patient_id)
         THEN ReadResponds(p, "consent_log", user, patient_id, Reraise(Forbidden))
         ELSE \E consent_log \in get_patient_consent_log(ledger, patient_id) :
                ReadResponds(p, "consent_log", user, patient_id,
                   [status |-> 200,
                    body |-> [patient_id |-> patient_id,
                              consent_events |-> consent_log,
                              total_events |-> Len(consent_log)]])

\* GET /data-access-report/{patient_id}; of the report the events and their
\* count are kept
RouteDataAccessReport(p) ==
    /\ RouteIdle(p)
    /\ \E user \in Callers, patient_id \in RouteQueries, days \in {30} :
         IF ~MayRead(user, patient_id)
         THEN ReadResponds(p, "access_report", user, patient_id, Reraise(Forbidden))
         ELSE LET I == {i \in Matching(ledger, patient_id) :
                           /\ "action_type" \in DOMAIN ledger[i].data
                           /\ ledger[i].data.action_type = "data_access"
                           /\ NotBefore(ledger[i].timestamp, now, days * 86400)}
              IN  \E access_records \in SortedDescFrom(ledger, I) :
                     ReadResponds(p, "access_report", user, patient_id,
                        [status |-> 200,
                         body |-> [patient_id |-> patient_id,
                                   report_period_days |-> days,
                                   total_access_events |-> Len(access_records),
                                   recent_access_events |->
                                       Slice(access_records, 0, 10)]])

\* The profile reads write the ledger, the three routes read it; one
\* request at a time, within one reading of the clock.
NextAuthz ==
    \E p \in Writer :
        \/ GetPatientProfile(p) /\ now' = now
        \/ GetPatientById(p) /\ now' = now
        \/ AuditReturns(p) /\ now' = now
        \/ AddLatest(p) /\ now' = now
        \/ InitCount(p) /\ now' = now
        \/ InitInsert(p) /\ now' = now
        \/ AddRefetch(p) /\ now' = now
        \/ AddInsert(p) /\ now' = now
        \/ RouteAuditTrail(p)
        \/ RouteConsentLog(p)
        \/ RouteDataAccessReport(p)

SpecAuthz == Init /\ [][NextAuthz]_vars

\* ------------------------------------------------------ two racing callers
\* Two requests call initialize() and add_transaction at the same time:
\* their steps interleave at the awaits.  The clock is read on millisecond
\* boundaries, so that every stored block reproduces its hash and only the
\* links can fail.
Racers == {1, 2}

NextRace == \E p \in Racers : Step(p) /\ OnMilli'

SpecRace == Init /\ [][NextRace]_vars

\* --------------------------------------------- the API after tampering
\* One caller at a time; one out-of-band write, made between two calls;
\* the API goes on being called on the store the write has left.  The
\* clock is read on millisecond boundaries, so that only the out-of-band
\* write can make the verification fail.
NextAfter ==
    \/ \E p \in Writer : Step(p) /\ OnMilli'
    \/ TamperField /\ OnMilli'
    \/ TamperRehash /\ OnMilli'
    \/ TamperDelete /\ OnMilli'
    \/ TamperInsert /\ OnMilli'
    \/ TamperSwap /\ OnMilli'

SpecAfter == Init /\ [][NextAfter]_vars

\* ------------------------------------- verification beside the writer
\* verify_chain_integrity() called by another request while the single
\* writer appends.  Its one query is a collection scan followed by a sort
\* in memory (no index on "index"): what to_list() hands over is the
\* documents of the first n positions of the collection, for some n between
\* the length when the query began and the length when it ends.  The loop
\* over the list has no await: it runs in one step with the fetch.
Reader == {2}

VerifyFind(q) ==
    /\ loc[q].pc = "idle"
    /\ loc' = [loc EXCEPT ![q] = [Idle EXCEPT !.pc = "verify_scan", !.op = "verify",
                                   !.before = Len(ledger)]]
    /\ UNCHANGED <<ledger, txHashUnique, now, tamper, app>>

VerifyScan(q) ==
    /\ loc[q].pc = "verify_scan"
    /\ \E n \in loc[q].before..Len(ledger) :
         \E r \in verify_chain_integrity(SubSeq(ledger, 1, n)) :
            loc' = [loc EXCEPT ![q].pc = "idle", ![q].status = "ok",
                               ![q].args = [read |-> n], ![q].ret = r]
    /\ UNCHANGED <<ledger, txHashUnique, now, tamper, app>>

NextGrow ==
    \/ \E p \in Writer : Step(p)
    \/ \E q \in Reader : VerifyFind(q) \/ VerifyScan(q)

SpecGrow == Init /\ [][NextGrow]_vars

\* ------------------------------------------------------- the chat socket
\* the users that open /chat/{user_id}
ChatUsers == {"U1", "D1"}

\* current_user.email.replace('@', '_').replace('.', '_')
EmailBasedId(u) ==
    CASE u = "U1" -> "u1_example_com"
      [] u = "D1" -> "d1_example_com"
      [] OTHER -> "nobody"

\* the user_id of the path
ChatPaths == ChatUsers \cup {EmailBasedId("U1")}

\* the token of the query string: none, or one that get_current_user_from_token
\* resolves to a user, or one it rejects
ChatTokens == {NoneValue} \cup {[sub |-> u] : u \in ChatUsers \cup {"invalid"}}

HasKey(d, k) == \E e \in d : e[1] = k

\* d.get(k)
DictGet(d, k) == IF HasKey(d, k) THEN (CHOOSE e \in d : e[1] = k)[2] ELSE NoneValue

\* d[k] = v
DictSet(d, k, v) == {e \in d : e[1] # k} \cup {<<k, v>>}

\* del d[k]
DictDel(d, k) == {e \in d : e[1] # k}

\* f"conn_{user_id}_{datetime.now().timestamp()}"
ConnectionId(user_id, t) == [conn |-> user_id, at |-> t]

\* ConnectionManager.disconnect
Disconnect(m, connection_id, user_id) ==
    [m EXCEPT !.active_connections = DictDel(@, connection_id),
              !.user_connections = DictDel(@, user_id)]

\* ConnectionManager.connect, after websocket.accept()
Connect(m, websocket, user_id, connection_id) ==
    [m EXCEPT !.active_connections = DictSet(@, connection_id, websocket),
              !.user_connections = DictSet(@, user_id, connection_id)]

\* the handler returns or raises: finally manager.disconnect(connection_id,
\* user_id)
WsFinally(w) ==
    app' = [app EXCEPT !.manager = Disconnect(@, app.ws[w].connection_id,
                                              app.ws[w].user_id),
                       !.ws[w] = NoSocket]

\* a client opens /chat/{user_id}?token=...: the handler names its
\* connection and looks for the token
WsOpen(w) ==
    /\ app.ws[w].pc = "closed"
    /\ \E user_id \in ChatPaths, token \in ChatTokens, t \in UtcNow :
          /\ now' = t
          /\ app' = [app EXCEPT !.ws[w] =
                        [pc |-> IF token = NoneValue THEN "close" ELSE "auth",
                         user_id |-> user_id, token |-> token,
                         connection_id |-> ConnectionId(user_id, t)]]
    /\ UNCHANGED <<ledger, txHashUnique, loc, tamper>>

\* await get_current_user_from_token(token), then the comparison with the
\* user_id of the path
WsAuthenticate(w) ==
    /\ app.ws[w].pc = "auth"
    /\ LET r == app.ws[w]
           accepted == /\ r.token.sub \in ChatUsers
                       /\ ~(r.token.sub # r.user_id
                            /\ EmailBasedId(r.token.sub) # r.user_id)
       IN  app' = [app EXCEPT !.ws[w].pc = IF accepted THEN "connect" ELSE "close"]
    /\ UNCHANGED <<ledger, txHashUnique, now, loc, tamper>>

\* await websocket.close(code=4001 or 4003); return
WsClose(w) ==
    /\ app.ws[w].pc = "close"
    /\ WsFinally(w)
    /\ UNCHANGED <<ledger, txHashUnique, now, loc, tamper>>

\* await manager.connect(websocket, user_id, connection_id); accept() may
\* raise when the client has gone
WsConnect(w) ==
    /\ app.ws[w].pc = "connect"
    /\ \E accepted \in BOOLEAN :
          IF accepted
          THEN app' = [app EXCEPT !.manager = Connect(@, w, app.ws[w].user_id,
                                                     app.ws[w].connection_id),
                                  !.ws[w].pc = "welcome"]
          ELSE WsFinally(w)
    /\ UNCHANGED <<ledger, txHashUnique, now, loc, tamper>>

\* await websocket.send_text(json.dumps(welcome_message))
WsWelcome(w) ==
    /\ app.ws[w].pc = "welcome"
    /\ \E sent \in BOOLEAN :
          IF sent THEN app' = [app EXCEPT !.ws[w].pc = "listen"]
          ELSE WsFinally(w)
    /\ UNCHANGED <<ledger, txHashUnique, now, loc, tamper>>

\* the loop of receive_text() ends with WebSocketDisconnect: break; the
\* messages before it leave both dictionaries as they are
WsDisconnected(w) ==
    /\ app.ws[w].pc = "listen"
    /\ WsFinally(w)
    /\ UNCHANGED <<ledger, txHashUnique, now, loc, tamper>>

\* ConnectionManager.send_personal_message(message, user_id)
SendPersonalMessage(user_id) ==
    /\ LET m == app.manager
           connection_id == DictGet(m.user_connections, user_id)
       IN  IF connection_id # NoneValue /\ HasKey(m.active_connections, connection_id)
           THEN \E sent \in BOOLEAN :
                   IF sent
                   THEN app' = [app EXCEPT !.manager.delivered =
                                   [to |-> DictGet(m.active_connections, connection_id)]]
                   ELSE app' = [app EXCEPT !.manager =
                                   [Disconnect(m, connection_id, user_id)
                                        EXCEPT !.delivered = [to |-> FALSE]]]
           ELSE app' = [app EXCEPT !.manager.delivered = [to |-> FALSE]]
    /\ UNCHANGED <<ledger, txHashUnique, now, loc, tamper>>

NextChat ==
    \/ \E w \in Sockets : WsOpen(w) /\ OnMilli'
    \/ \E w \in Sockets : WsAuthenticate(w)
    \/ \E w \in Sockets : WsClose(w)
    \/ \E w \in Sockets : WsConnect(w)
    \/ \E w \in Sockets : WsWelcome(w)
    \/ \E w \in Sockets : WsDisconnected(w)
    \/ \E u \in ChatPaths : SendPersonalMessage(u)

SpecChat == Init /\ [][NextChat]_vars

\* ------------------------------------------------------------ properties
Genesis(b) == b.index = 0

\* C1: after initialize() and any number of sequential successful
\* add_transaction calls the genesis block has previous_hash "0" and every
\* stored block of index i >= 1 has as previous_hash the stored hash of the
\* block of index i - 1.
ChainLinkage ==
    \A i \in 1..Len(ledger) :
        IF Genesis(ledger[i]) THEN ledger[i].previous_hash = ZeroString
        ELSE /\ \E j \in 1..Len(ledger) : ledger[j].index = ledger[i].index - 1
             /\ \A j \in 1..Len(ledger) :
                    ledger[j].index = ledger[i].index - 1
                        => ledger[i].previous_hash = ledger[j].hash

\* C1 happens: genesis and two appended blocks, every call returned
ChainLinkageWitness ==
    /\ AllIdle
    /\ Len(ledger) = 3
    /\ \E i \in 1..3 : ledger[i].index = 2

\* C2: an honestly built chain verifies: verify_chain_integrity() returns
\* true after initialize() and sequential successful add_transaction calls.
HonestChainVerifies == AllIdle => verify_chain_integrity(ledger) = {TRUE}

\* C7: a successful add_transaction(payload) of a single writer appends
\* exactly one block carrying the payload, at index latest.index + 1 and
\* with previous_hash = latest.hash, and returns its hash, the hash of the
\* block of maximal index; on an empty store it creates the genesis block
\* first and the new block has index 1.
Returned(p) == loc[p].pc = "idle" /\ loc[p].op = "add" /\ loc[p].status = "ok"

AppendPostcondition ==
    \A p \in Writer : Returned(p) =>
        LET l == loc[p]
            n == Len(ledger)
        IN  /\ n = IF l.before = 0 THEN 2 ELSE l.before + 1
            /\ ledger[n].data = l.payload
            /\ l.latest = get_latest_block(ledger[n - 1])
            /\ ledger[n].index = l.latest.index + 1
            /\ ledger[n].previous_hash = l.latest.hash
            /\ ledger[n].previous_hash = ledger[n - 1].hash
            /\ l.ret = ledger[n].hash
            /\ LatestDocs(ledger) = {ledger[n]}
            /\ l.before = 0 => (Genesis(ledger[1]) /\ ledger[n].index = 1)

\* C7 happens: add_transaction returned a hash on a store that was empty
AppendWitness == Returned(1) /\ loc[1].before = 0 /\ Len(loc[1].ret) > 1

\* C10: initialize() on a store that holds a block changes nothing: no step
\* of such a call changes the collection, and the call returns normally.
IdempotentGenesis ==
    [][\A p \in Procs :
          (loc[p].op = "initialize" /\ loc[p].pc # "idle" /\ loc[p].before > 0
              /\ loc'[p] # loc[p])
          => (ledger' = ledger /\ loc'[p].pc = "idle" /\ loc'[p].status = "ok")]_vars

\* C10 happens: initialize() has returned on a store that held blocks
IdempotentGenesisWitness ==
    \E p \in Procs : /\ loc[p].op = "initialize" /\ loc[p].pc = "idle"
                     /\ loc[p].before > 1 /\ Len(ledger) = loc[p].before

\* C8: no two stored blocks have the same index, also when add_transaction
\* calls interleave between reading the latest block and persisting.
IndexUnique ==
    \A i, j \in 1..Len(ledger) : ledger[i].index = ledger[j].index => i = j

\* C9: callers racing through initialize() on an empty store leave exactly
\* one genesis block, and none of them gets an error.
ConcurrentInitSafe ==
    /\ \A i, j \in 1..Len(ledger) :
          (Genesis(ledger[i]) /\ Genesis(ledger[j])) => i = j
    /\ \A p \in Procs :
          (loc[p].pc = "idle" /\ loc[p].op = "initialize") => loc[p].status = "ok"

\* In SpecTamper the out-of-band write is the last write to the store, and
\* tamper.valid is what verify_chain_integrity() returned just before it.

\* C3 as stated: on a valid chain, changing one of data, nonce,
\* previous_hash of any block k, the genesis block included, with the stored
\* hash left alone, makes verify_chain_integrity() return false.
TamperDetectedAnyBlock ==
    (tamper.kind = "field" /\ tamper.valid) => Detected(ledger)

\* C3 amended: the same for every block k >= 1.
TamperDetected ==
    (tamper.kind = "field" /\ tamper.valid /\ tamper.k >= 1) => Detected(ledger)

\* C3 happens: a field of a later block of a valid chain was overwritten
TamperDetectedWitness ==
    /\ tamper.kind = "field" /\ tamper.valid /\ tamper.k >= 1
    /\ Len(ledger) = tamper.n /\ AllIdle

\* C4: when the hash recomputed from the stored fields of a block of index
\* i > 0 differs from its stored hash, verify_chain_integrity() returns
\* false; so it does once the data.patient_id of an appended block has been
\* overwritten in the store.
PayloadTamperDetected ==
    tamper.kind \in {"none", "field", "rehash"} =>
        /\ (\E i \in 1..Len(ledger) : ledger[i].index > 0 /\ ~HashOk(ledger[i]))
               => Detected(ledger)
        /\ (tamper.kind = "field" /\ tamper.field = "data" /\ tamper.k > 0)
               => Detected(ledger)

\* C4 happens: one add_transaction, then its block's patient_id overwritten
PayloadTamperWitness ==
    /\ tamper.kind = "field" /\ tamper.field = "data" /\ tamper.k = 1
    /\ tamper.n = 2 /\ Len(ledger) = 2
    /\ Returned(1)
    /\ ledger[2].data.patient_id # loc[1].payload.patient_id

\* C5: when block k is altered and its stored hash replaced by the hash of
\* the altered content, and block k+1 exists, verify_chain_integrity()
\* returns false: block k+1's previous_hash is no longer block k's hash.
RehashCaughtBySuccessor ==
    (tamper.kind = "rehash" /\ tamper.k < tamper.n - 1)
        => /\ Detected(ledger)
           /\ ~LinkOk(ledger[tamper.k + 2], ledger[tamper.k + 1])

\* C5 happens: a block with a successor was altered and rehashed
RehashWitness ==
    /\ tamper.kind = "rehash" /\ tamper.k < tamper.n - 1
    /\ Len(ledger) = tamper.n /\ HashOk(ledger[tamper.k + 1])

\* C6 as stated: on a valid chain, deleting any block, inserting an extra
\* block anywhere, or swapping the index values of two blocks makes
\* verify_chain_integrity() return false.
StructuralTamperDetectedAnywhere ==
    (tamper.kind \in {"delete", "insert", "swap"} /\ tamper.valid)
        => Detected(ledger)

\* the write touches neither end of the chain
Interior(t) == 0 < t.k /\ t.k < t.n - 1

\* C6 amended: deleting a block that is neither the first nor the last,
\* inserting an extra block that the scan meets after the first and before
\* the last block, or swapping the index values of two blocks makes
\* verify_chain_integrity() return false.
StructuralTamperDetected ==
    (/\ tamper.valid
     /\ \/ tamper.kind = "swap"
        \/ tamper.kind \in {"delete", "insert"} /\ Interior(tamper))
        => Detected(ledger)

\* C6 happens: an extra block sits inside a chain that was valid
StructuralTamperWitness ==
    /\ tamper.kind = "insert" /\ tamper.valid /\ Interior(tamper)
    /\ Len(ledger) = tamper.n + 1

\* C11: initialize() on an empty store leaves exactly one block, of index 0
\* and previous_hash "0", and verify_chain_integrity() then returns true.
GenesisPostcondition ==
    \A p \in Writer :
        (loc[p].op = "initialize" /\ loc[p].pc = "idle" /\ loc[p].before = 0)
        => /\ loc[p].status = "ok"
           /\ Len(ledger) = 1
           /\ ledger[1].index = 0
           /\ ledger[1].previous_hash = ZeroString
           /\ verify_chain_integrity(ledger) = {TRUE}

\* C11 happens: initialize() has returned on a store that was empty
GenesisPostconditionWitness ==
    /\ loc[1].op = "initialize" /\ loc[1].pc = "idle" /\ loc[1].before = 0
    /\ Len(ledger) = 1 /\ ledger[1].data = GenesisData

ActionTypes ==
    {"genesis", "data_access", "data_modification", "consultation_event",
     "ai_interaction"}

\* C12: every block written by initialize() or by a log_* method of the
\* auditor carries a payload whose action_type is one of ActionTypes; the
\* payload of the genesis block has action_type "genesis" and created_by
\* "system".
PayloadTagged ==
    \A i \in 1..Len(ledger) :
        LET d == ledger[i].data
        IN  /\ "action_type" \in DOMAIN d
            /\ d.action_type \in ActionTypes
            /\ Genesis(ledger[i]) =>
                  (d.action_type = "genesis" /\ d.created_by = "system")

\* the text a digest was computed from
HashedText(h) == h[Len(h)]

\* C13: when mine_block(d) returns, for d in {1, 2, 3}, the hash of the block
\* begins with d zeros and is calculate_hash() of the block with its final
\* nonce; so every block add_transaction has persisted has a stored hash
\* with at least difficulty leading zeros, computed with its stored nonce.
MiningPostcondition ==
    /\ \A p \in Writer :
          (loc[p].pc \in {"idle", "add_insert"} /\ loc[p].block # None
              /\ loc[p].op \in {"mine", "add"}
              /\ "difficulty" \in DOMAIN loc[p].args)
          => LET b == loc[p].block
                 d == loc[p].args.difficulty
             IN  /\ \A i \in 1..d : b.hash[i] = 0
                 /\ b.hash = calculate_hash(b)
                 /\ b = mine_block(loc[p].args.start, d)
    /\ \A i \in 1..Len(ledger) :
          ledger[i].index > 0
          => /\ \A k \in 1..difficulty : ledger[i].hash[k] = 0
             /\ HashedText(ledger[i].hash).nonce = ledger[i].nonce
             /\ ledger[i].hash = Sha256(HashedText(ledger[i].hash))

\* C13 happens: mine_block(3) has returned after trying several nonces
MiningPostconditionWitness ==
    /\ loc[1].op = "mine" /\ loc[1].pc = "idle"
    /\ loc[1].args.difficulty = 3 /\ loc[1].block.nonce > 1

\* C14: mining terminates: the loop of mine_block leaves every block
\* add_transaction constructs mined, and every add_transaction call whose
\* storage operations respond returns or raises.
MiningTerminates ==
    \A p \in Writer : (loc[p].pc # "idle") ~> (loc[p].pc = "idle")

\* C14 happens: add_transaction has returned a block whose mining took
\* more than one try
MiningTerminatesWitness ==
    /\ Returned(1) /\ "start" \in DOMAIN loc[1].args
    /\ loc[1].block.nonce > loc[1].args.start.nonce
    /\ loc[1].ret = loc[1].block.hash

\* C15: the store is append-only: no operation of the ledger or the auditor
\* updates or deletes a stored block; a block once stored stays, with all
\* its fields unchanged, and the number of blocks never decreases; and
\* verify_chain_integrity, get_patient_audit_trail, get_patient_consent_log
\* and get_blockchain_stats, and the two queries the routes make themselves,
\* leave the store as it is.
AppendOnly ==
    [][/\ Len(ledger') >= Len(ledger)
       /\ SubSeq(ledger', 1, Len(ledger)) = ledger
       /\ \A p \in Writer :
             (loc'[p].op \in ReadOps /\ loc'[p] # loc[p]) => ledger' = ledger]_vars

\* C15 happens: the consent log has been read from a store of three blocks
AppendOnlyWitness ==
    /\ loc[1].op = "consent_log" /\ loc[1].pc = "idle"
    /\ Len(ledger) = 3 /\ Len(loc[1].ret) > 0

\* a stored document is a whole block: all six fields, and mined unless it
\* is the genesis block
WholeBlock(doc) ==
    /\ DOMAIN doc = {"index", "timestamp", "data", "previous_hash", "nonce", "hash"}
    /\ doc.hash = Sha256(HashedText(doc.hash))
    /\ HashedText(doc.hash).nonce = doc.nonce
    /\ doc.index > 0 => Mined(doc, difficulty)

\* C16: a write failure is all-or-nothing and visible: when a storage
\* operation fails during add_transaction or initialize, the call raises
\* (add_transaction returns no hash) and the store holds the blocks it held
\* before the failing operation; a call that returns normally has stored a
\* whole block or, for initialize on a store with blocks, nothing; and
\* nothing but whole, mined blocks ever becomes visible.
WriteAllOrNothing ==
    [][/\ \A p \in Writer :
             (loc[p].pc # "idle" /\ loc'[p].pc = "idle") =>
                \/ /\ loc'[p].status = "error"
                   /\ ledger' = ledger
                   /\ loc'[p].ret = <<>>
                \/ /\ loc'[p].status = "ok" /\ loc[p].op = "add"
                   /\ ledger' = Append(ledger, ledger'[Len(ledger')])
                   /\ loc'[p].ret = ledger'[Len(ledger')].hash
                \/ /\ loc'[p].status = "ok" /\ loc[p].op = "initialize"
                   /\ \/ ledger' = ledger /\ ledger # <<>>
                      \/ ledger = <<>> /\ Len(ledger') = 1
       /\ \/ ledger' = ledger
          \/ /\ ledger' = Append(ledger, ledger'[Len(ledger')])
             /\ WholeBlock(ledger'[Len(ledger')])]_vars

\* C16 happens: with no unique index in the way, a storage operation of an
\* add_transaction on a store of two blocks has failed
WriteAllOrNothingWitness ==
    /\ ~txHashUnique
    /\ loc[1].pc = "idle" /\ loc[1].op = "add" /\ loc[1].status = "error"
    /\ loc[1].block # None /\ loc[1].block.index = 2
    /\ Len(ledger) = 2 /\ loc[1].before = 2

\* C17: an audit failure never aborts the primary operation: when the
\* ledger has raised during a log_* call made by get_patient_profile,
\* update_patient_profile, get_patient_by_id or the chat handler, the
\* handler still ends with its normal result, and the profile update
\* already written is kept.
AuditFailureTolerated ==
    \A p \in Writer :
        LET r == app.req[p]
        IN  (r.pc = "idle" /\ r.audit_failed) =>
              /\ r.response.status = 200
              /\ r.route \in {"get_patient_profile", "update_patient_profile"}
                    => \E i \in FindByUser(r.user) : r.response.body = app.patients[i]
              /\ r.route = "get_patient_by_id"
                    => \E i \in 1..Len(app.patients) : r.response.body = app.patients[i]
              /\ r.route = "handle_chat_message"
                    => \E text \in Texts : r.response.body = [str |-> text]
              /\ r.route = "update_patient_profile"
                    => \A i \in FindByUser(r.user) :
                          \A f \in {"gender", "blood_type"} :
                             r.update[f] # NoneValue
                                => app.patients[i][f] = [str |-> r.update[f].value]

\* C17 happens: PUT /profile changed two fields, the first was logged, the
\* ledger raised on the second, and the handler has answered
AuditFailureWitness ==
    LET r == app.req[1]
    IN  /\ r.pc = "idle" /\ r.audit_failed
        /\ r.route = "update_patient_profile"
        /\ r.update = [gender |-> GenderMale, blood_type |-> BloodTypeAPositive]
        /\ ~txHashUnique /\ Len(ledger) = 2
        /\ ledger[2].data.field_changed = "gender"
        /\ app.patients[1].blood_type = [str |-> "A+"]

\* the stored blocks written for patient q
BlocksOf(q) ==
    {i \in 1..Len(ledger) : /\ "patient_id" \in DOMAIN ledger[i].data
                            /\ ledger[i].data.patient_id = q}

\* C18: get_patient_audit_trail(p) returns exactly the stored blocks whose
\* data.patient_id is p, each once, newest block timestamp first; with three
\* data_access blocks logged for one patient it returns those three; for an
\* identifier that matches no block it returns the empty list.
TrailContract ==
    \A q \in PatientQueries :
        /\ get_patient_audit_trail(ledger, q) # {}
        /\ \A trail \in get_patient_audit_trail(ledger, q) :
              /\ Len(trail) = Cardinality(BlocksOf(q))
              /\ \A i \in BlocksOf(q) : \E k \in 1..Len(trail) : trail[k] = ledger[i]
              /\ \A k \in 1..Len(trail) : \E i \in BlocksOf(q) : trail[k] = ledger[i]
              /\ \A k \in 1..Len(trail) - 1 :
                    trail[k].timestamp >= trail[k + 1].timestamp
              /\ BlocksOf(q) = {} => trail = <<>>
              /\ (/\ Cardinality(BlocksOf(q)) = 3
                  /\ \A i \in BlocksOf(q) : ledger[i].data.action_type = "data_access")
                    => /\ Len(trail) = 3
                       /\ \A k \in 1..3 : trail[k].data.action_type = "data_access"

\* C18 happens: three log_data_access calls for P1 have appended their
\* blocks at different times, P2 has one block or none, P9 has none
TrailWitness ==
    /\ Len(ledger) = 4
    /\ BlocksOf("P1") = {2, 3, 4}
    /\ \A i \in 2..4 : ledger[i].data.action_type = "data_access"
    /\ ledger[2].timestamp < ledger[4].timestamp
    /\ BlocksOf("P9") = {}
    /\ <<ledger[4], ledger[3], ledger[2]>> \in get_patient_audit_trail(ledger, "P1")

\* the positions of the consent-type blocks of a trail
ConsentPositions(trail) ==
    {k \in 1..Len(trail) :
        trail[k].data.action_type
            \in {"data_access", "data_modification", "consultation_event"}}

\* the actor a payload of a consent-type block names
ActorOf(d) ==
    CASE d.action_type = "data_access" -> d.accessed_by
      [] d.action_type = "data_modification" -> d.modified_by
      [] d.action_type = "consultation_event" -> d.doctor_id

\* C19: get_patient_consent_log(p) has, in the order of the audit trail,
\* exactly one entry per trail block of type data_access, data_modification
\* or consultation_event and none for the others; the entry carries the
\* block's timestamp, its action_type, the actor its payload names, the
\* payload itself and the block's hash.
ConsentLogContract ==
    \A q \in PatientQueries :
        /\ get_patient_consent_log(ledger, q) # {}
        /\ \A log \in get_patient_consent_log(ledger, q) :
              \E trail \in get_patient_audit_trail(ledger, q) :
                 LET K == ConsentPositions(trail)
                     Nth(n) == CHOOSE k \in K : Cardinality({j \in K : j <= k}) = n
                 IN  /\ Len(log) = Cardinality(K)
                     /\ \A n \in 1..Len(log) :
                           LET block == trail[Nth(n)]
                           IN  /\ DOMAIN log[n] = {"timestamp", "action", "performed_by",
                                                   "details", "block_hash"}
                               /\ log[n].timestamp = block.timestamp
                               /\ log[n].action = block.data.action_type
                               /\ log[n].performed_by = ActorOf(block.data)
                               /\ log[n].details = block.data
                               /\ log[n].block_hash = block.hash

\* C19 happens: P1 has a modification, a consultation event and an AI
\* interaction on the ledger, and the consent log has the first two
ConsentLogWitness ==
    /\ Cardinality(BlocksOf("P1")) = 3
    /\ {ledger[i].data.action_type : i \in BlocksOf("P1")}
          = {"data_modification", "consultation_event", "ai_interaction"}
    /\ \E log \in get_patient_consent_log(ledger, "P1") :
          /\ Len(log) = 2
          /\ {log[1].performed_by, log[2].performed_by} = {"P1", "D1"}

\* the block a returned call of the auditor has appended
Appended(p) == ledger[loc[p].before + (IF loc[p].before = 0 THEN 2 ELSE 1)]

AiReturned(p) ==
    /\ loc[p].pc = "idle" /\ loc[p].status = "ok" /\ loc[p].op = "add"
    /\ loc[p].args # <<>>
    /\ loc[p].args.call = "log_ai_interaction"

\* C20: log_ai_interaction stores only digests of the free text: the payload
\* of the appended block has input_data_hash = SHA-256(input_data) and
\* output_data_hash = SHA-256(output_data), its fields are the eight the
\* method builds, and none of them holds input_data or output_data.
AiTextDigested ==
    \A p \in Writer :
        AiReturned(p) =>
            LET data == Appended(p).data
                plain == {loc[p].args.input_data, loc[p].args.output_data}
            IN  /\ DOMAIN data = {"action_type", "patient_id", "interaction_type",
                                  "ai_model", "input_data_hash", "output_data_hash",
                                  "confidence_score", "timestamp"}
                /\ data.input_data_hash = Sha256Hex(loc[p].args.input_data)
                /\ data.output_data_hash = Sha256Hex(loc[p].args.output_data)
                /\ \A f \in DOMAIN data \ {"timestamp"} : data[f] \notin plain
                /\ DOMAIN Appended(p) = {"index", "timestamp", "data",
                                         "previous_hash", "nonce", "hash"}

\* C20 happens: log_ai_interaction("hello", "world") has returned and its
\* block is the last of the ledger
AiTextDigestedWitness ==
    /\ AiReturned(1)
    /\ loc[1].args.input_data = "hello" /\ loc[1].args.output_data = "world"
    /\ Appended(1) = ledger[Len(ledger)]
    /\ Appended(1).data.input_data_hash
          = "2cf24dba5fb0a30e26e83b2ac5b9e29e1b161e5c1fa7425e73043362938b9824"
    /\ Appended(1).data.output_data_hash
          = "486ea46224d1bb4fb680f34f7c9ad96a8f24ec88be73ea8e5a6c65260e9cb8a7"

ReadRoutes == {"audit_trail", "consent_log", "access_report"}

\* what the payloads in a response of a read route are about
PatientsIn(response) ==
    IF response.body = NoneValue THEN {}
    ELSE UNION {
           {response.body[f][k].data.patient_id : k \in 1..Len(response.body[f])} :
               f \in DOMAIN response.body \cap {"audit_trail", "recent_access_events"}}
         \cup UNION {
           {response.body[f][k].details.patient_id : k \in 1..Len(response.body[f])} :
               f \in DOMAIN response.body \cap {"consent_events"}}

\* C21: on the audit-trail, consent-log and data-access-report routes a
\* patient is answered with ledger data only for the patient_id that is the
\* caller's own id and is otherwise refused with 403 and no data; a doctor
\* or an administrator is answered for any patient_id; a caller of any
\* other role is refused with 403.
ReadAuthorized ==
    \A p \in Writer :
        LET r == app.req[p]
        IN  (r.pc = "idle" /\ r.route \in ReadRoutes) =>
              /\ (Role(r.user) = "patient" /\ r.patient_id # r.user)
                    => r.response = [status |-> 403, body |-> NoneValue]
              /\ (Role(r.user) = "patient" /\ r.patient_id = r.user)
                    => r.response.status = 200
              /\ Role(r.user) \in {"doctor", "admin"} => r.response.status = 200
              /\ Role(r.user) \notin {"patient", "doctor", "admin"}
                    => r.response = [status |-> 403, body |-> NoneValue]
              /\ r.response.status = 200
                    => /\ r.response.body.patient_id = r.patient_id
                       /\ PatientsIn(r.response) \subseteq {r.patient_id}

\* C21 happens: the ledger holds a block about P1, the patient U1 has asked
\* for the audit trail of P1 and has been refused
ReadAuthorizedWitness ==
    /\ BlocksOf("P1") # {}
    /\ app.req[1].pc = "idle" /\ app.req[1].route = "audit_trail"
    /\ app.req[1].user = "U1" /\ app.req[1].patient_id = "P1"
    /\ app.req[1].response.status = 403

StatsReturned(p) ==
    loc[p].pc = "idle" /\ loc[p].op = "stats" /\ loc[p].status = "ok"

RECURSIVE SumOver(_, _)
SumOver(f, K) ==
    IF K = {} THEN 0
    ELSE LET k == CHOOSE x \in K : TRUE IN f[k] + SumOver(f, K \ {k})

\* what get_blockchain_stats reports apart from recent_activity: the number
\* of stored blocks, a histogram that sums to it, and the verdict of
\* verify_chain_integrity() on the same store
StatsTotals ==
    \A p \in Writer :
        StatsReturned(p) =>
            /\ loc[p].ret.total_blocks = Len(ledger)
            /\ SumOver(loc[p].ret.transaction_types,
                       DOMAIN loc[p].ret.transaction_types) = Len(ledger)
            /\ loc[p].ret.blockchain_integrity \in verify_chain_integrity(ledger)

\* C22: get_blockchain_stats reports recent_activity = the number of stored
\* blocks whose timestamp lies within the 7 days before the call, with
\* total_blocks, the histogram and blockchain_integrity as above.
StatsContract ==
    /\ StatsTotals
    /\ \A p \in Writer :
          StatsReturned(p) =>
              loc[p].ret.recent_activity
                  = Cardinality({i \in 1..Len(ledger) :
                                    /\ ledger[i].timestamp <= now
                                    /\ NotBefore(ledger[i].timestamp, now, 7 * 86400)})

VerifyReturned(q) ==
    loc[q].pc = "idle" /\ loc[q].op = "verify" /\ loc[q].status = "ok"

\* a verdict of false beside the writer is never due to the growth of the
\* chain: the blocks read are linked, and one of them has a stored hash
\* that its stored fields do not reproduce
GrowthNotBlamed ==
    \A q \in Reader :
        (VerifyReturned(q) /\ loc[q].ret = FALSE) =>
            LET blocks == SubSeq(ledger, 1, loc[q].args.read)
            IN  /\ \A i \in 2..Len(blocks) :
                      blocks[i].previous_hash = blocks[i - 1].hash
                /\ \E i \in 2..Len(blocks) :
                      calculate_hash(TempBlock(blocks[i])) # blocks[i].hash

\* C23: a verify_chain_integrity() call that overlaps the add_transaction
\* calls of a single writer on an untampered chain returns true.
VerifyDuringGrowth ==
    \A q \in Reader : VerifyReturned(q) => loc[q].ret = TRUE

\* a run of verify_chain_integrity() on the store s can return false
Rejected(s) == FALSE \in verify_chain_integrity(s)

\* the last step of an add_transaction call of p
AddEnds(p) == loc[p].pc = "add_insert" /\ loc'[p].pc = "idle"

\* C24: add_transaction makes no integrity check: on a store that
\* verify_chain_integrity() rejects its insert is refused only by the
\* storage, and otherwise the call returns the hash of the block it has
\* appended, whose index is latest.index + 1 and whose previous_hash is the
\* stored, not the recomputed, hash of the latest block.
TrustsHead ==
    [][\A p \in Writer :
          (AddEnds(p) /\ Rejected(ledger)) =>
              IF InsertRejected(ledger)
              THEN ledger' = ledger /\ loc'[p].status = "error"
              ELSE \E doc \in LatestDocs(ledger) :
                     LET b == ledger'[Len(ledger')]
                     IN  /\ Len(ledger') = Len(ledger) + 1
                         /\ SubSeq(ledger', 1, Len(ledger)) = ledger
                         /\ b.index = doc.index + 1
                         /\ b.previous_hash = doc.hash
                         /\ b.data = loc[p].payload
                         /\ loc'[p].status = "ok"
                         /\ loc'[p].ret = b.hash]_vars

\* C24 happens: a field of the latest block was overwritten, so that its
\* stored hash is no longer the hash of its fields, and add_transaction has
\* since appended a block linked to the stored hash
TrustsHeadWitness ==
    /\ tamper.kind = "field" /\ tamper.k = tamper.n - 1
    /\ Len(ledger) = tamper.n + 1
    /\ Returned(1)
    /\ Rejected(ledger)
    /\ ledger[Len(ledger)].previous_hash = ledger[tamper.n].hash
    /\ ledger[tamper.n].hash # calculate_hash(TempBlock(ledger[tamper.n]))

\* C26: once verify_chain_integrity() returns false for a store it returns
\* false after every further step of initialize() and add_transaction: a
\* store every scan rejects stays one every scan rejects, and a store some
\* scan rejects stays one some scan rejects.
EvidencePermanent ==
    [][tamper' = tamper =>
          /\ Detected(ledger) => Detected(ledger')
          /\ Rejected(ledger) => Rejected(ledger')]_vars

\* C26 happens: the store was rejected when the call began, and the call
\* has appended a block to it
EvidencePermanentWitness ==
    /\ ~Untampered
    /\ Returned(1)
    /\ Len(ledger) = loc[1].before + 1
    /\ Detected(SubSeq(ledger, 1, loc[1].before))
    /\ Detected(ledger)

\* C25: with the indexes of init_db in force the storage accepts every
\* call of a sequential run of initialize() and add_transaction: no call
\* raises, and each add_transaction leaves one block more than it found
\* (two on an empty store).
StorageAcceptsAppends ==
    \A p \in Writer :
        (txHashUnique /\ loc[p].pc = "idle" /\ loc[p].op \in {"initialize", "add"}) =>
            /\ loc[p].status = "ok"
            /\ loc[p].op = "add" =>
                  Len(ledger) = loc[p].before + (IF loc[p].before = 0 THEN 2 ELSE 1)

\* the store holds two blocks of the same index
Forked(s) == \E i, j \in 1..Len(s) : i # j /\ s[i].index = s[j].index

\* C27: whenever the store holds two blocks of the same index, left by
\* racing initializers or by interleaved add_transaction calls,
\* verify_chain_integrity() returns false, in whichever order the scan
\* meets the blocks of equal index.
ForksReported == Forked(ledger) => Detected(ledger)

\* C27 happens: two interleaved add_transaction calls have appended two
\* children of the genesis block
ForksReportedWitness ==
    /\ Len(ledger) = 3
    /\ ledger[1].index = 0
    /\ ledger[2].index = 1 /\ ledger[3].index = 1
    /\ ledger[2].previous_hash = ledger[1].hash
    /\ ledger[3].previous_hash = ledger[1].hash

\* the profiles a data_access block of a profile read is about: the one
\* read by its owner, named by user id, or by a doctor, named by its _id
ProfilesReadBy(d) ==
    {k \in 1..Len(app.patients) :
        d.patient_id \in {app.patients[k].user_id, app.patients[k]._id}}

\* C28: each data_access block written for a read of a patient's profile,
\* by the patient through get_patient_profile or by a doctor or an
\* administrator through get_patient_by_id, is recorded under the
\* identifier the patient may query on the audit-trail route, the
\* patient's own user id.
AccessVisibleToPatient ==
    \A i \in 1..Len(ledger) :
        LET d == ledger[i].data
        IN  ("action_type" \in DOMAIN d /\ d.action_type = "data_access"
                /\ d.data_type = "patient_profile") =>
               /\ ProfilesReadBy(d) # {}
               /\ \A k \in ProfilesReadBy(d) :
                     /\ d.patient_id = app.patients[k].user_id
                     /\ MayRead(app.patients[k].user_id, d.patient_id)

\* PUT /profile has answered 200
UpdateAnswered(p) ==
    /\ app.req[p].pc = "idle"
    /\ app.req[p].route = "update_patient_profile"
    /\ app.req[p].response.status = 200

\* the fields a body of PUT /profile changes, in the order of the model
\* class: gender before blood_type
ChangedFields(body) ==
    SelectSeq(<<"gender", "blood_type">>, LAMBDA f : body[f] # NoneValue)

\* the field_changed of the data_modification blocks the store has gained
\* since position n, in the order of the chain
RECURSIVE FieldsLoggedSince(_)
FieldsLoggedSince(n) ==
    IF n >= Len(ledger) THEN <<>>
    ELSE LET d == ledger[n + 1].data
         IN  (IF "action_type" \in DOMAIN d /\ d.action_type = "data_modification"
              THEN <<d.field_changed>> ELSE <<>>)
             \o FieldsLoggedSince(n + 1)

\* C29: when PUT /profile changes k fields and no ledger call fails,
\* exactly k data_modification blocks are appended, one per field in the
\* order of iteration and none for updated_at; when the call for one field
\* fails, the blocks written before it stay, none is written for that field
\* or the fields after it, and the update is applied and returned.
AuditPerField ==
    \A p \in Writer :
        UpdateAnswered(p) =>
            LET r == app.req[p]
                fields == ChangedFields(r.update)
                logged == FieldsLoggedSince(r.before)
            IN  /\ ~r.audit_failed => logged = fields
                /\ r.audit_failed =>
                      \E j \in 0..(Len(fields) - 1) : logged = SubSeq(fields, 1, j)
                /\ \A n \in 1..Len(logged) : logged[n] # "updated_at"
                /\ \A n \in (r.before + 1)..Len(ledger) :
                      "patient_id" \in DOMAIN ledger[n].data
                          => /\ ledger[n].data.patient_id = r.user
                             /\ ledger[n].data.modified_by = r.user
                /\ \E i \in FindByUser(r.user) :
                      /\ r.response.body = app.patients[i]
                      /\ \A n \in 1..Len(fields) :
                            app.patients[i][fields[n]] = [str |-> r.update[fields[n]].value]

\* C29 happens: PUT /profile changed gender and blood_type, no ledger call
\* failed, and the chain has gained one block for each, in that order
AuditPerFieldWitness ==
    /\ UpdateAnswered(1)
    /\ ~app.req[1].audit_failed
    /\ ChangedFields(app.req[1].update) = <<"gender", "blood_type">>
    /\ Len(ledger) = 3
    /\ ledger[2].data.field_changed = "gender"
    /\ ledger[3].data.field_changed = "blood_type"
    /\ ledger[3].data.new_value = [str |-> "BloodType.A_POSITIVE"]

\* the handler w has registered its connection and has not left
Registered(w) ==
    /\ app.ws[w].pc \in {"welcome", "listen"}
    /\ <<app.ws[w].connection_id, w>> \in app.manager.active_connections

\* the handler w runs its finally clause in this step
RunsDisconnect(w) == app.ws[w].pc # "closed" /\ app'.ws[w].pc = "closed"

\* C30: when a user has opened a second chat connection while the first is
\* registered and the handler of the first then runs disconnect,
\* user_connections still maps the user to the second connection.
ReconnectKeepsReachable ==
    [][\A a, b \in Sockets :
          (/\ a # b
           /\ Registered(a) /\ Registered(b)
           /\ app.ws[a].user_id = app.ws[b].user_id
           /\ <<app.ws[b].user_id, app.ws[b].connection_id>>
                  \in app.manager.user_connections
           /\ RunsDisconnect(a))
              => <<app.ws[b].user_id, app.ws[b].connection_id>>
                     \in app'.manager.user_connections]_vars

====
